---- MODULE Spec2Model ----
(***************************************************************************)
(* A model of roslibpy's comm.py: RosBridgeProtocol (the handler registry, *)
(* the table of pending service requests and the dispatch of inbound       *)
(* frames) and RosBridgeClientFactory (the on_ready Deferred over the      *)
(* reconnecting connection life cycle).                                    *)
(*                                                                         *)
(* Python 2 semantics are modelled: the module raises and catches          *)
(* StandardError, which the transport's errors derive from.  Inbound       *)
(* frames are JSON objects that carry the keys their op requires.  The     *)
(* Deferred behind on_ready is twisted's: a chain of callbacks, each       *)
(* called with what the one before it returned.                            *)
(***************************************************************************)
EXTENDS Integers, Sequences, FiniteSets, TLC

\* ---- bounds of the model ------------------------------------------------
MaxSessions == 2     \* protocol instances the factory builds
MaxRequests == 2     \* send_ros_service_request calls
MaxReady    == 2     \* on_ready registrations

\* ---- value domains ------------------------------------------------------
Ids      == {"a", "b"}
Topics   == {"/scan", "/odom"}
Payloads == {1, 2}
BuiltinOps == {"publish", "service_response"}
ExtraOps   == {"status"}
AllOps     == BuiltinOps \cup ExtraOps
\* values a caller can pass as a handler; "None" is Python's None
CustomHandlers == {"h1", "h2", "None"}
\* the JSON values of a frame's result key; "absent" is a frame without the key
Results  == {"absent", "true", "false", "zero"}
\* what an invoked callback or errback may do: return, raise, or issue a new
\* service request with the id of the one being answered
CallbackBehaviours == {"return", "raise", "resend"}
\* what an on_ready callback may do: return its argument, return None, raise
ReadyBehaviours == {"returnProto", "returnNone", "raise"}

NoCalls == << >>

\* a Python value handed to a callback
PyVal(tag, n) == [tag |-> tag, n |-> n]
PyNone     == PyVal("None", 0)
PyFailure  == PyVal("Failure", 0)
PyProto(s) == PyVal("proto", s)

\* one invocation of a callable made while an operation runs
Call(fn, k, key, arg) == [fn |-> fn, k |-> k, key |-> key, arg |-> arg]

\* a decoded frame: every frame has all keys, unused ones are blank
Frame(o, t, m, i, r, v) ==
  [op |-> o, topic |-> t, msg |-> m, id |-> i, result |-> r, values |-> v]
PublishFrames  == {Frame("publish", t, m, "", "absent", 0) : t \in Topics, m \in Payloads}
ResponseFrames == {Frame("service_response", "", 0, i, r, v) :
                     i \in Ids, r \in Results, v \in Payloads}
OtherFrames    == {Frame(o, "", 0, "", "absent", 0) : o \in ExtraOps}
Frames == PublishFrames \cup ResponseFrames \cup OtherFrames

VARIABLES
  conn,       \* "connecting" | "open" | "closed": the connector's state
  cur,        \* number of the protocol instance built last (0: none yet)
  handlers,   \* _message_handlers of protocol instance cur (a dict)
  pending,    \* pending[s]: _pending_service_requests of instance s (a dict)
  nreq,       \* service requests issued so far; each gets the next number
  fired,      \* fired[r]: how often request r's callback / errback was called
  gate,       \* _on_ready_event: [called, result, callbacks]
  ready,      \* ready[k]: what the k-th on_ready callback does when called
  readyGot,   \* readyGot[k]: the arguments the k-th on_ready callback got
  listeners,  \* listeners[t]: the subscribers on topic t
  op,         \* the operation that ran last
  raised,     \* the exception the last operation raised to its caller
  calls       \* the callables the last operation invoked, in order

vars == <<conn, cur, handlers, pending, nreq, fired, gate, ready, readyGot,
          listeners, op, raised, calls>>

Sessions == 1..MaxSessions
Requests == 1..MaxRequests

\* ---- Python helpers -----------------------------------------------------
EmptyDict == [x \in {} |-> 0]
\* d[key] = value
Put(d, key, value) == [x \in DOMAIN d \cup {key} |-> IF x = key THEN value ELSE d[x]]
\* del d[key]
Del(d, key) == [x \in DOMAIN d \ {key} |-> d[x]]
\* self._message_handlers.get(operation, None)
GetHandler(d, key) == IF key \in DOMAIN d THEN d[key] ELSE "None"
\* truth value of a handler: None is false, a callable is true
Truthy(h) == h # "None"

\* the (callback, errback) tuple of request r; FALSE stands for None
Entry(r, cb, eb) == [req |-> r, callback |-> cb, errback |-> eb]
NoEntry == Entry(0, FALSE, FALSE)
\* self._pending_service_requests.get(request_id, None)
GetPending(d, key) == IF key \in DOMAIN d THEN d[key] ELSE NoEntry
\* truth value of what GetPending returns: None is false, a 2-tuple is true
TruthyEntry(e) == e # NoEntry

\* message['result'] == False, for a result key that is present (0 == False)
EqualsFalse(r) == r \in {"false", "zero"}

\* RosBridgeProtocol.__init__
NewHandlers ==
  [o \in BuiltinOps |-> IF o = "publish" THEN "_handle_publish"
                        ELSE "_handle_service_response"]
NewPending == EmptyDict

Init ==
  /\ conn = "connecting"
  /\ cur = 0
  /\ handlers = NewHandlers
  /\ pending = [s \in Sessions |-> NewPending]
  /\ nreq = 0
  /\ fired = [r \in Requests |-> [callback |-> 0, errback |-> 0]]
  /\ gate = [called |-> FALSE, result |-> PyNone, callbacks |-> << >>]
  /\ ready = << >>
  /\ readyGot = << >>
  /\ listeners = [t \in Topics |-> {}]
  /\ op = "init"
  /\ raised = "none"
  /\ calls = NoCalls

\* ---- RosBridgeProtocol: outbound ----------------------------------------

\* Propagated with the error swallowed as send_ros_message does: C19 must not
\* survive it
PropagatedMutant(rejected) == "none"

\* a sendMessage call outside any try: what the transport raises reaches the
\* caller
Propagated(rejected) == IF rejected THEN "SendFailure" ELSE "none"

\* Caught without the try / except: C9 must not survive it
CaughtMutant(rejected) == IF rejected THEN "SendFailure" ELSE "none"

\* a sendMessage call inside try / except StandardError: the error is logged
Caught(rejected) == "none"

\* LOGGER.exception('Failed to send message, %s', exception)
Logged(rejected) ==
  IF rejected THEN <<Call("LOGGER.exception", 0, "", PyNone)>> ELSE NoCalls

\* send_ros_message(message); rejected: sendMessage raises
send_ros_message(rejected) ==
  /\ cur >= 1
  /\ op' = "send_ros_message"
  /\ raised' = Caught(rejected)
  /\ calls' = Logged(rejected)
  /\ UNCHANGED <<conn, cur, handlers, pending, nreq, fired, gate, ready,
                 readyGot, listeners>>

\* Registered without the membership test: C6 must not survive it
RegisteredMutant(d, operation) == FALSE

\* operation in self._message_handlers
Registered(d, operation) == operation \in DOMAIN d

\* register_message_handlers(operation, handler)
register_message_handlers(operation, handler) ==
  /\ cur >= 1
  /\ op' = "register_message_handlers"
  /\ calls' = NoCalls
  /\ IF Registered(handlers, operation)
       THEN /\ raised' = "HandlerConflict"
            /\ UNCHANGED handlers
       ELSE /\ raised' = "none"
            /\ handlers' = Put(handlers, operation, handler)
  /\ UNCHANGED <<conn, cur, pending, nreq, fired, gate, ready, readyGot,
                 listeners>>

\* Table with one dict shared by all instances (a class attribute): C20 must
\* not survive it
TableMutant(s) == pending[1]

\* self._pending_service_requests of instance s: a dict of its own, made in
\* __init__
Table(s) == pending[s]

\* Store keeping the entry an id already has: C16 must not survive it
StoreMutant(table, request_id, entry) ==
  IF request_id \in DOMAIN table THEN table ELSE Put(table, request_id, entry)

\* self._pending_service_requests[request_id] = (callback, errback)
Store(table, request_id, entry) == Put(table, request_id, entry)

\* send_ros_service_request(service_request, callback, errback), where
\* service_request['id'] = id; cb, eb: a callable is passed (FALSE: None)
send_ros_service_request(id, cb, eb, rejected) ==
  /\ cur >= 1
  /\ nreq < MaxRequests
  /\ nreq' = nreq + 1
  /\ pending' = [pending EXCEPT ![cur] = Store(Table(cur), id, Entry(nreq + 1, cb, eb))]
  /\ op' = "send_ros_service_request"
  /\ raised' = Propagated(rejected)
  /\ calls' = NoCalls
  /\ UNCHANGED <<conn, cur, handlers, fired, gate, ready, readyGot, listeners>>

\* ---- RosBridgeProtocol: inbound -----------------------------------------

\* what a handler leaves behind: the instance's table, the request counter,
\* the callback counters, the calls it made and what it raised
Effect(table, nr, fr, cs, exc) ==
  [pending |-> table, nreq |-> nr, fired |-> fr, calls |-> cs, raised |-> exc]

\* EventEmitterMixin.emit(topic, msg): every listener on topic is called once
Emit(topic, msg) ==
  IF listeners[topic] = {} THEN NoCalls
  ELSE <<Call("listener", 1, topic, PyVal("json", msg))>>

\* HandlePublish emitting under the frame's op instead of its topic: C8 must
\* not survive it
HandlePublishMutant(s, f) ==
  Effect(Table(s), nreq, fired,
         <<Call("emit", 0, f.op, PyVal("json", f.msg))>>, "none")

\* _handle_publish(message)
HandlePublish(s, f) ==
  Effect(Table(s), nreq, fired,
         <<Call("emit", 0, f.topic, PyVal("json", f.msg))>> \o Emit(f.topic, f.msg),
         "none")

\* the test of _handle_service_response that picks errback or callback
Selected(f) ==
  IF f.result # "absent" /\ EqualsFalse(f.result) THEN "errback" ELSE "callback"

\* ServiceRequest(values): the values, wrapped
ServiceRequest(values) == PyVal("ServiceRequest", values)

\* the argument the selected callable is called with
CallbackArg(which, f) ==
  IF which = "errback" THEN PyVal("json", f.values)
  ELSE ServiceRequest(f.values)

\* Consume without the del: C1 must not survive it
ConsumeMutant(table, request_id) == table

\* del self._pending_service_requests[request_id]
Consume(table, request_id) == Del(table, request_id)

\* Unknown without the test for a missing entry: C2 must not survive it
UnknownMutant(service_handlers) == FALSE

\* if not service_handlers: raise
Unknown(service_handlers) == ~TruthyEntry(service_handlers)

\* Supplied without the test: the selected callable is called though it is
\* None; C12 must not survive it
SuppliedMutant(service_handlers, which) == TRUE

\* if errback: / if callback:
Supplied(service_handlers, which) == service_handlers[which]

\* Invoke with the del placed after the call: C17 must not survive it
InvokeMutant(table, request_id, nr, beh) ==
  Del(IF beh = "resend" THEN Store(table, request_id, Entry(nr + 1, TRUE, TRUE))
      ELSE table,
      request_id)

\* the table after the selected callable has run on the table the del left:
\* the callable may call send_ros_service_request with the id just answered,
\* and the handler does nothing to the table after the call
Invoke(table, request_id, nr, beh) ==
  IF beh = "resend" THEN Store(table, request_id, Entry(nr + 1, TRUE, TRUE))
  ELSE table

\* _handle_service_response(message); beh is what the invoked callable does
HandleServiceResponse(s, f, beh) ==
  LET request_id == f.id
      service_handlers == GetPending(Table(s), request_id)
  IN IF Unknown(service_handlers)
       THEN Effect(Table(s), nreq, fired, NoCalls, "UnknownRequestId")
       ELSE LET table == Consume(Table(s), request_id)
                which == Selected(f)
                r     == service_handlers.req
            IN IF ~Supplied(service_handlers, which)
                 THEN Effect(table, nreq, fired, NoCalls, "none")
                 ELSE Effect(
                        Invoke(table, request_id, nreq, beh),
                        IF beh = "resend" THEN nreq + 1 ELSE nreq,
                        [fired EXCEPT ![r][which] = @ + 1],
                        <<Call(which, r, request_id, CallbackArg(which, f))>>,
                        IF beh = "raise" THEN "CallbackError" ELSE "none")

\* a handler registered through register_message_handlers is called
HandleCustom(s, f, handler) ==
  Effect(Table(s), nreq, fired,
         <<Call("handler", 0, handler, PyVal("message", 0))>>, "none")

\* Unsupported without the isBinary test: C10 must not survive it
UnsupportedMutant(isBinary) == FALSE

\* if isBinary: raise NotImplementedError
Unsupported(isBinary) == isBinary

\* NoHandler without the test for a missing handler: C7 must not survive it
NoHandlerMutant(handler) == FALSE

\* if not handler: raise
NoHandler(handler) == ~Truthy(handler)

\* onMessage(payload, isBinary) on instance s, payload the JSON text of f
Dispatch(s, f, isBinary, beh) ==
  IF Unsupported(isBinary)
    THEN Effect(Table(s), nreq, fired, NoCalls, "UnsupportedFrame")
    ELSE LET handler == GetHandler(handlers, f.op)
         IN IF NoHandler(handler)
              THEN Effect(Table(s), nreq, fired, NoCalls, "UnknownOperation")
              ELSE CASE handler = "_handle_publish" -> HandlePublish(s, f)
                     [] handler = "_handle_service_response" ->
                          HandleServiceResponse(s, f, beh)
                     [] OTHER -> HandleCustom(s, f, handler)

\* the frame makes some callable run
Invokes(s, f, isBinary) == Dispatch(s, f, isBinary, "return").calls # NoCalls

\* onMessage closing the connection when the frame fails: C15 must not
\* survive it
onMessageMutant(f, isBinary, beh) ==
  /\ conn = "open"
  /\ beh = "resend" => nreq < MaxRequests
  /\ LET e == Dispatch(cur, f, isBinary, beh)
     IN /\ pending' = [pending EXCEPT ![cur] = e.pending]
        /\ nreq' = e.nreq
        /\ fired' = e.fired
        /\ calls' = e.calls
        /\ raised' = e.raised
        /\ conn' = IF e.raised = "none" THEN conn ELSE "closed"
  /\ op' = "onMessage"
  /\ UNCHANGED <<cur, handlers, gate, ready, readyGot, listeners>>

\* onMessage(payload, isBinary) as the transport delivers it to instance cur
onMessage(f, isBinary, beh) ==
  /\ conn = "open"
  /\ beh = "resend" => nreq < MaxRequests
  /\ LET e == Dispatch(cur, f, isBinary, beh)
     IN /\ pending' = [pending EXCEPT ![cur] = e.pending]
        /\ nreq' = e.nreq
        /\ fired' = e.fired
        /\ calls' = e.calls
        /\ raised' = e.raised
  /\ op' = "onMessage"
  /\ UNCHANGED <<conn, cur, handlers, gate, ready, readyGot, listeners>>

\* onClose that drops the instance's pending requests: C14 must not survive it
onCloseMutant ==
  /\ conn = "open"
  /\ conn' = "closed"
  /\ pending' = [pending EXCEPT ![cur] = NewPending]
  /\ op' = "onClose"
  /\ raised' = "none"
  /\ calls' = NoCalls
  /\ UNCHANGED <<cur, handlers, nreq, fired, gate, ready, readyGot, listeners>>

\* onClose(wasClean, code, reason): logs
onClose ==
  /\ conn = "open"
  /\ conn' = "closed"
  /\ op' = "onClose"
  /\ raised' = "none"
  /\ calls' = NoCalls
  /\ UNCHANGED <<cur, handlers, pending, nreq, fired, gate, ready, readyGot,
                 listeners>>

\* ---- RosBridgeClientFactory ---------------------------------------------

\* what the Deferred holds after a callback that was called with arg has run
ResultAfter(b, arg) ==
  CASE b = "returnProto" -> arg
    [] b = "returnNone"  -> PyNone
    [] OTHER             -> PyFailure

\* Deferred._runCallbacks: the callbacks run in order as a chain; each is
\* called with the current result and what it returns becomes the result; a
\* callback added with addCallback is passed over while the result is a Failure
RECURSIVE RunCallbacks(_, _, _, _, _)
RunCallbacks(behs, result, cbs, got, cs) ==
  IF cbs = << >>
    THEN [result |-> result, got |-> got, calls |-> cs]
    ELSE LET k == Head(cbs)
         IN IF result = PyFailure
              THEN RunCallbacks(behs, result, Tail(cbs), got, cs)
              ELSE RunCallbacks(behs, ResultAfter(behs[k], result), Tail(cbs),
                                [got EXCEPT ![k] = Append(@, result)],
                                Append(cs, Call("on_ready", k, "", result)))

\* Deferred.callback(result) / Deferred.errback(fail) on _on_ready_event
Fire(result) ==
  IF gate.called
    THEN /\ raised' = "AlreadyCalledError"
         /\ calls' = NoCalls
         /\ UNCHANGED <<gate, readyGot>>
    ELSE LET run == RunCallbacks(ready, result, gate.callbacks, readyGot, NoCalls)
         IN /\ gate' = [called |-> TRUE, result |-> run.result, callbacks |-> << >>]
            /\ readyGot' = run.got
            /\ calls' = run.calls
            /\ raised' = "none"

\* on_ready(callback): _on_ready_event.addCallback(callback); b is what the
\* callback does when it is called
on_ready(b) ==
  /\ Len(ready) < MaxReady
  /\ LET k == Len(ready) + 1
         cbs == Append(gate.callbacks, k)
     IN /\ ready' = Append(ready, b)
        /\ IF gate.called
             THEN LET run == RunCallbacks(Append(ready, b), gate.result, cbs,
                                          Append(readyGot, << >>), NoCalls)
                  IN /\ gate' = [gate EXCEPT !.result = run.result]
                     /\ readyGot' = run.got
                     /\ calls' = run.calls
             ELSE /\ gate' = [gate EXCEPT !.callbacks = cbs]
                  /\ readyGot' = Append(readyGot, << >>)
                  /\ calls' = NoCalls
  /\ op' = "on_ready"
  /\ raised' = "none"
  /\ UNCHANGED <<conn, cur, handlers, pending, nreq, fired, listeners>>

\* the connection opens: the factory builds the next protocol instance (its
\* __init__ sets up a fresh registry and table) and the instance's onOpen
\* calls factory.ready(self)
onOpen ==
  /\ conn = "connecting"
  /\ cur < MaxSessions
  /\ cur' = cur + 1
  /\ conn' = "open"
  /\ handlers' = NewHandlers
  /\ Fire(PyProto(cur + 1))
  /\ op' = "onOpen"
  /\ UNCHANGED <<pending, nreq, fired, ready, listeners>>

\* clientConnectionLost(connector, reason): the reconnecting factory retries
clientConnectionLost ==
  /\ conn = "closed"
  /\ conn' = "connecting"
  /\ op' = "clientConnectionLost"
  /\ raised' = "none"
  /\ calls' = NoCalls
  /\ UNCHANGED <<cur, handlers, pending, nreq, fired, gate, ready, readyGot,
                 listeners>>

\* clientConnectionFailed(connector, reason): the reconnecting factory retries,
\* then _on_ready_event.errback(reason)
clientConnectionFailed ==
  /\ conn = "connecting"
  /\ Fire(PyFailure)
  /\ op' = "clientConnectionFailed"
  /\ UNCHANGED <<conn, cur, handlers, pending, nreq, fired, ready, listeners>>

\* EventEmitterMixin.on(topic, listener): the caller subscribes to topic
on(topic) ==
  /\ listeners' = [listeners EXCEPT ![topic] = @ \cup {1}]
  /\ op' = "on"
  /\ raised' = "none"
  /\ calls' = NoCalls
  /\ UNCHANGED <<conn, cur, handlers, pending, nreq, fired, gate, ready,
                 readyGot>>

\* ---- the program --------------------------------------------------------

\* the behaviours an invoked callable can show; none is drawn when the frame
\* invokes none
Behaviours(f, isBinary) ==
  IF cur >= 1 /\ Invokes(cur, f, isBinary) THEN CallbackBehaviours ELSE {"return"}

\* every operation of the module
Next ==
  \/ \E rejected \in BOOLEAN : send_ros_message(rejected)
  \/ \E o \in AllOps, h \in CustomHandlers : register_message_handlers(o, h)
  \/ \E i \in Ids, cb \in BOOLEAN, eb \in BOOLEAN, rejected \in BOOLEAN :
       send_ros_service_request(i, cb, eb, rejected)
  \/ \E f \in Frames, isBinary \in BOOLEAN :
       \E beh \in Behaviours(f, isBinary) : onMessage(f, isBinary, beh)
  \/ \E b \in ReadyBehaviours : on_ready(b)
  \/ \E t \in Topics : on(t)
  \/ onOpen
  \/ onClose
  \/ clientConnectionLost
  \/ clientConnectionFailed

Spec == Init /\ [][Next]_vars

\* The specifications below each take some of Next's disjuncts, so each of
\* their behaviours is a behaviour of Spec.  The operations a specification
\* leaves out write no variable that the operations it keeps read, except
\* that a reconnect (clientConnectionLost, then onOpen) replaces the protocol
\* instance.

\* one protocol instance from onOpen to onClose: registry, correlation table,
\* sends and dispatch
ProtocolNext ==
  \/ \E rejected \in BOOLEAN : send_ros_message(rejected)
  \/ \E o \in AllOps, h \in CustomHandlers : register_message_handlers(o, h)
  \/ \E i \in Ids, cb \in BOOLEAN, eb \in BOOLEAN, rejected \in BOOLEAN :
       send_ros_service_request(i, cb, eb, rejected)
  \/ \E f \in Frames, isBinary \in BOOLEAN :
       \E beh \in Behaviours(f, isBinary) : onMessage(f, isBinary, beh)
  \/ onOpen
  \/ onClose

ProtocolSpec == Init /\ [][ProtocolNext]_vars

\* the factory: the readiness Deferred over the connection life cycle
GateNext ==
  \/ \E b \in ReadyBehaviours : on_ready(b)
  \/ onOpen
  \/ onClose
  \/ clientConnectionLost
  \/ clientConnectionFailed

GateSpec == Init /\ [][GateNext]_vars

\* topic fan-out: subscribers, pending requests and the frames dispatched to
\* one protocol instance
FanoutNext ==
  \/ \E t \in Topics : on(t)
  \/ \E i \in Ids, cb \in BOOLEAN, eb \in BOOLEAN, rejected \in BOOLEAN :
       send_ros_service_request(i, cb, eb, rejected)
  \/ \E f \in Frames, isBinary \in BOOLEAN :
       \E beh \in Behaviours(f, isBinary) : onMessage(f, isBinary, beh)
  \/ onOpen
  \/ onClose

FanoutSpec == Init /\ [][FanoutNext]_vars

\* reconnection: requests and frames on the protocol instances the factory
\* builds one after the other, each connection opening, closing and being lost
ReconnectNext ==
  \/ \E rejected \in BOOLEAN : send_ros_message(rejected)
  \/ \E i \in Ids, cb \in BOOLEAN, eb \in BOOLEAN, rejected \in BOOLEAN :
       send_ros_service_request(i, cb, eb, rejected)
  \/ \E f \in Frames, isBinary \in BOOLEAN :
       \E beh \in Behaviours(f, isBinary) : onMessage(f, isBinary, beh)
  \/ onOpen
  \/ onClose
  \/ clientConnectionLost

ReconnectSpec == Init /\ [][ReconnectNext]_vars

\* ---- properties ---------------------------------------------------------

\* how often request r's callables were called, callback and errback together
Fired(r) == fired[r].callback + fired[r].errback

\* an operation that raised left the protocol's tables, counters and callbacks
\* as they were
Untouched ==
  /\ pending' = pending
  /\ handlers' = handlers
  /\ nreq' = nreq
  /\ fired' = fired
  /\ calls' = NoCalls

\* C1: no request ever has its callables called more than once in total; and
\* a service_response for a live id whose request supplied both callables
\* calls exactly one of them, once, and the id is gone from the table when
\* the handler returns (unless the callable itself issued a new request with
\* that id)
C1_ExactlyOnce ==
  /\ \A r \in Requests : Fired(r) <= 1
  /\ cur >= 1 =>
       \A f \in ResponseFrames, beh \in CallbackBehaviours :
         LET before == GetPending(pending[cur], f.id)
             e == Dispatch(cur, f, FALSE, beh)
         IN (f.id \in DOMAIN pending[cur] /\ before.callback /\ before.errback)
            => /\ Len(e.calls) = 1
               /\ e.calls[1].fn \in {"callback", "errback"}
               /\ e.calls[1].k = before.req
               /\ e.fired[before.req].callback + e.fired[before.req].errback = 1
               /\ \A r \in Requests \ {before.req} : e.fired[r] = fired[r]
               /\ beh # "resend" => f.id \notin DOMAIN e.pending
               /\ before.req \notin {e.pending[i].req : i \in DOMAIN e.pending}

\* C1 is reached: two requests are resolved, one through its callback and one
\* through its errback, and the last dispatch called exactly one callable
C1_Witness ==
  /\ op = "onMessage"
  /\ Len(calls) = 1
  /\ calls[1].fn = "errback"
  /\ \E r \in Requests : fired[r] = [callback |-> 1, errback |-> 0]
  /\ fired[calls[1].k] = [callback |-> 0, errback |-> 1]
  /\ pending[1] = EmptyDict

\* C2: a service_response whose id has no entry in the table raises the
\* unknown-request-id error, calls nothing and changes no table
C2_UnknownRequestId ==
  /\ [](cur >= 1 =>
         \A f \in ResponseFrames, beh \in CallbackBehaviours :
           f.id \notin DOMAIN pending[cur]
           => Dispatch(cur, f, FALSE, beh)
                = Effect(pending[cur], nreq, fired, NoCalls, "UnknownRequestId"))
  /\ [][(op' = "onMessage" /\ raised' = "UnknownRequestId") => Untouched]_vars

\* C2 is reached: a response arrives for an id that an earlier response has
\* already resolved
C2_Witness ==
  /\ op = "onMessage"
  /\ raised = "UnknownRequestId"
  /\ nreq = 1
  /\ Fired(1) = 1
  /\ pending[1] = EmptyDict

\* C3: when the connection opens and ready() resolves the Deferred, every
\* on_ready callback registered so far has been called exactly once
C3_AllReadyCallbacksRun ==
  (op = "onOpen" /\ raised = "none")
  => \A k \in 1..Len(ready) : Len(readyGot[k]) = 1

\* C4: every argument an on_ready callback was ever called with is the
\* protocol instance that onOpen passed to ready()
C4_SameOutcome ==
  \A k \in 1..Len(readyGot) :
    \A i \in 1..Len(readyGot[k]) : readyGot[k][i].tag = "proto"

\* C5: no open and no failed attempt ever fires a Deferred that an earlier
\* open or failure has fired
C5_ResolvedOnce == raised # "AlreadyCalledError"

\* C6: registering a handler for an operation that is in the registry raises
\* the handler-conflict error and leaves the registry as it was, so the
\* handler a frame with that op is dispatched to is the one from before
C6_HandlerConflict ==
  [][\A o \in AllOps, h \in CustomHandlers :
       (o \in DOMAIN handlers /\ register_message_handlers(o, h))
       => /\ raised' = "HandlerConflict"
          /\ handlers' = handlers
          /\ GetHandler(handlers', o) = GetHandler(handlers, o)]_vars

\* C6 is reached: a second handler was refused for an op registered earlier
C6_Witness ==
  /\ op = "register_message_handlers"
  /\ raised = "HandlerConflict"
  /\ "status" \in DOMAIN handlers
  /\ handlers["status"] = "h1"

\* C7: a frame whose op is not in the registry raises the unknown-operation
\* error, calls nothing and changes neither table
C7_UnknownOperation ==
  /\ [](cur >= 1 =>
         \A f \in Frames, beh \in CallbackBehaviours :
           f.op \notin DOMAIN handlers
           => Dispatch(cur, f, FALSE, beh)
                = Effect(pending[cur], nreq, fired, NoCalls, "UnknownOperation"))
  /\ [][(op' = "onMessage" /\ raised' = "UnknownOperation") => Untouched]_vars

\* C7 is reached: a status frame arrived with no status handler registered
\* while a request was pending
C7_Witness ==
  /\ op = "onMessage"
  /\ raised = "UnknownOperation"
  /\ "status" \notin DOMAIN handlers
  /\ pending[1] # EmptyDict

\* the calls of cs made to fn
CallsTo(cs, fn) == {i \in 1..Len(cs) : cs[i].fn = fn}

\* C8: a publish frame with topic T and message M makes one emit call, keyed
\* by T and carrying M; a subscriber on T is called once, with M, and no
\* subscriber on another topic is called; neither table changes
C8_PublishFanout ==
  /\ [](cur >= 1 =>
         \A f \in PublishFrames, beh \in CallbackBehaviours :
           LET e == Dispatch(cur, f, FALSE, beh)
               M == PyVal("json", f.msg)
           IN /\ e.raised = "none"
              /\ Cardinality(CallsTo(e.calls, "emit")) = 1
              /\ e.calls[1] = Call("emit", 0, f.topic, M)
              /\ listeners[f.topic] # {}
                   => /\ Cardinality(CallsTo(e.calls, "listener")) = 1
                      /\ \A i \in CallsTo(e.calls, "listener") :
                           e.calls[i].key = f.topic /\ e.calls[i].arg = M
              /\ listeners[f.topic] = {} => CallsTo(e.calls, "listener") = {}
              /\ e.pending = pending[cur]
              /\ e.nreq = nreq /\ e.fired = fired)
  /\ [][(op' = "onMessage" /\ CallsTo(calls', "emit") # {})
          => pending' = pending /\ handlers' = handlers]_vars

\* C8 is reached: a publish frame was dispatched to a subscriber while a
\* request was pending
C8_Witness ==
  /\ op = "onMessage"
  /\ Len(calls) = 2
  /\ calls[1].fn = "emit"
  /\ calls[2] = Call("listener", 1, "/scan", PyVal("json", 2))
  /\ listeners["/odom"] # {}
  /\ pending[1] # EmptyDict

\* C9: a send_ros_message whose send the transport rejects raises nothing to
\* its caller and changes neither table
C9_SendFailureSwallowed ==
  [][send_ros_message(TRUE)
       => raised' = "none" /\ pending' = pending /\ handlers' = handlers]_vars

\* C9 is reached: a rejected send was logged and nothing was raised
C9_Witness ==
  /\ op = "send_ros_message"
  /\ CallsTo(calls, "LOGGER.exception") # {}
  /\ raised = "none"
  /\ pending[1] # EmptyDict

\* C10: a frame flagged binary raises the unsupported-frame error whatever
\* its payload, calls nothing and changes neither table
C10_BinaryRejected ==
  /\ [](cur >= 1 =>
         \A f \in Frames, beh \in CallbackBehaviours :
           Dispatch(cur, f, TRUE, beh)
             = Effect(pending[cur], nreq, fired, NoCalls, "UnsupportedFrame"))
  /\ [][(op' = "onMessage" /\ raised' = "UnsupportedFrame") => Untouched]_vars

\* C10 is reached: a binary frame was refused while requests were pending for
\* both ids, so its payload could have been a response to a live id
C10_Witness ==
  /\ op = "onMessage"
  /\ raised = "UnsupportedFrame"
  /\ DOMAIN pending[1] = Ids

\* C11: a service_response for a live id whose request supplied both
\* callables calls the errback if and only if the frame has a result key
\* whose value is false, and the callback when the key is absent or holds any
\* other value; either one is called with the frame's values
C11_ErrbackIffFalse ==
  cur >= 1 =>
    \A f \in ResponseFrames, beh \in CallbackBehaviours :
      LET before == GetPending(pending[cur], f.id)
          e == Dispatch(cur, f, FALSE, beh)
      IN (f.id \in DOMAIN pending[cur] /\ before.callback /\ before.errback)
         => /\ Len(e.calls) = 1
            /\ (e.calls[1].fn = "errback") <=> (f.result = "false")
            /\ (e.calls[1].fn = "callback") <=> (f.result # "false")
            /\ e.calls[1].arg.n = f.values

\* C12: a service_response for a live id whose selected callable is None
\* calls nothing, raises nothing and removes the id's entry; nothing else in
\* the table changes and no callback counter moves
C12_NullCallbackConsumes ==
  /\ [](cur >= 1 =>
         \A f \in ResponseFrames, beh \in CallbackBehaviours :
           LET before == GetPending(pending[cur], f.id)
           IN (f.id \in DOMAIN pending[cur] /\ ~before[Selected(f)])
              => Dispatch(cur, f, FALSE, beh)
                   = Effect(Del(pending[cur], f.id), nreq, fired, NoCalls, "none"))
  /\ [][(op' = "onMessage" /\ raised' = "none" /\ calls' = NoCalls)
          => /\ fired' = fired
             /\ nreq' = nreq
             /\ \E i \in DOMAIN pending[cur] :
                  pending'[cur] = Del(pending[cur], i)]_vars

\* C12 is reached: two requests were answered and removed, neither of their
\* callables was ever called, and the last response called nothing
C12_Witness ==
  /\ op = "onMessage"
  /\ raised = "none"
  /\ calls = NoCalls
  /\ nreq = 2
  /\ Fired(1) = 0
  /\ Fired(2) = 0
  /\ pending[1] = EmptyDict

\* C13: the registry always maps publish and service_response to the two
\* built-in handlers, and within a session no mapping is removed or changed
C13_RegistryAppendOnly ==
  /\ [](/\ GetHandler(handlers, "publish") = "_handle_publish"
        /\ GetHandler(handlers, "service_response") = "_handle_service_response")
  /\ [][cur' = cur
          => \A o \in DOMAIN handlers :
               o \in DOMAIN handlers' /\ handlers'[o] = handlers[o]]_vars

\* C13 is reached: a frame was dispatched to a handler registered after
\* construction, next to the two built-in ones
C13_Witness ==
  /\ op = "onMessage"
  /\ DOMAIN handlers = AllOps
  /\ handlers["status"] = "h2"
  /\ calls = <<Call("handler", 0, "h2", PyVal("message", 0))>>
  /\ pending[1] # EmptyDict

\* the step dispatches a service_response frame carrying id i to instance s
Answers(s, i) ==
  /\ s = cur
  /\ op' = "onMessage"
  /\ \E f \in ResponseFrames, beh \in CallbackBehaviours :
       f.id = i /\ onMessage(f, FALSE, beh)

\* the step is a send_ros_service_request on instance s that uses id i again
Reuses(s, i) ==
  /\ s = cur
  /\ op' = "send_ros_service_request"
  /\ \E cb \in BOOLEAN, eb \in BOOLEAN, rejected \in BOOLEAN :
       send_ros_service_request(i, cb, eb, rejected)

\* the entry instance s holds under id i is as before the step and neither of
\* its callables was called
Stays(s, i) ==
  /\ i \in DOMAIN pending'[s]
  /\ pending'[s][i] = pending[s][i]
  /\ fired'[pending[s][i].req] = fired[pending[s][i].req]

\* C14 as stated: every step other than the dispatch of a service_response
\* carrying the entry's id keeps the entry and calls neither of its callables
C14_StaysUntilAnswered ==
  [][\A s \in Sessions : \A i \in DOMAIN pending[s] :
       Stays(s, i) \/ Answers(s, i)]_vars

\* C14 as amended: every step other than the dispatch of a service_response
\* carrying the entry's id, or a send_ros_service_request that uses the id
\* again, keeps the entry and calls neither of its callables
C14_StaysUntilAnsweredOrReused ==
  [][\A s \in Sessions : \A i \in DOMAIN pending[s] :
       Stays(s, i) \/ Answers(s, i) \/ Reuses(s, i)]_vars

\* C14 is reached: a request of the first instance is still pending and
\* uncalled after its connection closed and was lost, while the second
\* instance dispatches a publish frame
C14_Witness ==
  /\ cur = 2
  /\ op = "onMessage"
  /\ Len(calls) >= 1
  /\ calls[1].fn = "emit"
  /\ "a" \in DOMAIN pending[1]
  /\ Fired(pending[1]["a"].req) = 0

\* C20: a service_response arriving on the current instance for an id that
\* only an earlier instance holds raises the unknown-request-id error and
\* calls nothing; and no step changes the table of an instance other than the
\* current one or calls a callable of a request such a table holds
C20_TablesPerSession ==
  /\ [](\A s \in Sessions :
          s < cur =>
            \A f \in ResponseFrames, beh \in CallbackBehaviours :
              (f.id \in DOMAIN pending[s] /\ f.id \notin DOMAIN pending[cur])
              => LET e == Dispatch(cur, f, FALSE, beh)
                 IN /\ e.raised = "UnknownRequestId"
                    /\ e.calls = NoCalls
                    /\ e.fired = fired)
  /\ [][\A s \in Sessions :
          s # cur' =>
            /\ pending'[s] = pending[s]
            /\ \A i \in DOMAIN pending[s] :
                 fired'[pending[s][i].req] = fired[pending[s][i].req]]_vars

\* C20 is reached: the second instance refused a response while the first
\* instance still held requests under both ids, neither of them called
C20_Witness ==
  /\ cur = 2
  /\ op = "onMessage"
  /\ raised = "UnknownRequestId"
  /\ DOMAIN pending[1] = Ids
  /\ pending[2] = EmptyDict
  /\ \A r \in Requests : Fired(r) = 0

\* the errors of framing and dispatch
FrameErrors == {"UnsupportedFrame", "UnknownOperation", "UnknownRequestId"}

Live == UNION {{pending[s][i].req : i \in DOMAIN pending[s]} : s \in Sessions}

\* C16: a table holds one entry per id, each for a request of its own; a
\* send_ros_service_request whose id is live raises no error of its own and
\* replaces the entry; a response for a live id calls only a callable of the
\* request that holds the entry, and a request that holds no entry is never
\* called again
C16_SilentOverwrite ==
  /\ [](\A s \in Sessions :
          Cardinality({pending[s][i].req : i \in DOMAIN pending[s]})
            = Cardinality(DOMAIN pending[s]))
  /\ [](cur >= 1 =>
         \A f \in ResponseFrames, beh \in CallbackBehaviours :
           f.id \in DOMAIN pending[cur]
           => LET e == Dispatch(cur, f, FALSE, beh)
              IN \A j \in 1..Len(e.calls) : e.calls[j].k = pending[cur][f.id].req)
  /\ [][\A i \in Ids, cb \in BOOLEAN, eb \in BOOLEAN, rejected \in BOOLEAN :
          (cur >= 1 /\ i \in DOMAIN pending[cur]
             /\ send_ros_service_request(i, cb, eb, rejected))
          => /\ raised' = (IF rejected THEN "SendFailure" ELSE "none")
             /\ DOMAIN pending'[cur] = DOMAIN pending[cur]
             /\ pending'[cur][i] = Entry(nreq + 1, cb, eb)
             /\ \A j \in DOMAIN pending[cur] \ {i} :
                  pending'[cur][j] = pending[cur][j]
             /\ fired' = fired]_vars
  /\ [][\A r \in 1..nreq : r \notin Live => fired'[r] = fired[r]]_vars

\* C16 is reached: the second request was stored under the only id in the
\* table while the first request was never called
C16_Witness ==
  /\ op = "send_ros_service_request"
  /\ raised = "none"
  /\ nreq = 2
  /\ pending[1] = [i \in {"a"} |-> Entry(2, TRUE, TRUE)]
  /\ Fired(1) = 0

\* C17: a callable that, while it runs, sends a new request with the id being
\* answered leaves that request live when the handler returns; the request
\* just answered has been called once and the next response for the id calls
\* the new request
C17_ReentrantSameId ==
  /\ [](cur >= 1 =>
         \A f \in ResponseFrames :
           LET before == GetPending(pending[cur], f.id)
               e == Dispatch(cur, f, FALSE, "resend")
           IN (f.id \in DOMAIN pending[cur] /\ before[Selected(f)])
              => /\ f.id \in DOMAIN e.pending
                 /\ e.pending[f.id] = Entry(nreq + 1, TRUE, TRUE)
                 /\ e.fired[before.req].callback + e.fired[before.req].errback = 1)
  /\ [][\A f \in ResponseFrames :
          (onMessage(f, FALSE, "resend") /\ calls' # NoCalls)
          => /\ f.id \in DOMAIN pending'[cur]
             /\ pending'[cur][f.id].req = nreq'
             /\ calls'[1].k # nreq'
             /\ \A g \in ResponseFrames :
                  g.id = f.id
                  => LET e == Dispatch(cur, g, FALSE, "return")'
                     IN /\ Len(e.calls) = 1
                        /\ e.calls[1].k = nreq'
                        /\ e.fired[calls'[1].k] = fired'[calls'[1].k]]_vars

\* C17 is reached: the callback of request 1 ran and request 2, sent by it
\* under the same id, is live
C17_Witness ==
  /\ op = "onMessage"
  /\ raised = "none"
  /\ calls = <<Call("callback", 1, "a", ServiceRequest(2))>>
  /\ pending[1] = [i \in {"a"} |-> Entry(2, TRUE, TRUE)]
  /\ fired[1] = [callback |-> 1, errback |-> 0]

\* C18: a frame whose op was registered is dispatched to the registered
\* handler, which is called once with the message, and the dispatch does not
\* raise the unknown-operation error
C18_RegisteredHandlerDispatched ==
  cur >= 1 =>
    \A f \in OtherFrames, beh \in CallbackBehaviours :
      f.op \in DOMAIN handlers
      => LET e == Dispatch(cur, f, FALSE, beh)
         IN /\ e.raised # "UnknownOperation"
            /\ e.calls = <<Call("handler", 0, handlers[f.op], PyVal("message", 0))>>

\* C19: send_ros_service_request leaves the request's entry in the table
\* whether or not the transport takes the message; when the transport
\* rejects it the error reaches the caller, and otherwise nothing is raised
C19_StoredBeforeSend ==
  [][\A i \in Ids, cb \in BOOLEAN, eb \in BOOLEAN, rejected \in BOOLEAN :
       send_ros_service_request(i, cb, eb, rejected)
       => /\ i \in DOMAIN pending'[cur]
          /\ pending'[cur][i] = Entry(nreq', cb, eb)
          /\ raised' = (IF rejected THEN "SendFailure" ELSE "none")
          /\ \A f \in ResponseFrames :
               f.id = i
               => Dispatch(cur, f, FALSE, "return")'.raised # "UnknownRequestId"]_vars

\* C19 is reached: the transport rejected the request that is live under b,
\* next to an earlier request
C19_Witness ==
  /\ op = "send_ros_service_request"
  /\ raised = "SendFailure"
  /\ nreq = 2
  /\ DOMAIN pending[1] = Ids
  /\ pending[1]["b"] = Entry(2, TRUE, FALSE)

====
